---- MODULE Spec2Model ----
(***************************************************************************)
(* Model of the btcvol submission CLI (src/btcvol_submit_old.py):          *)
(* Validator -> Structure Builder (with the notebook Extractor inside)     *)
(* -> Config Updater -> Deployment Trigger -> Status Poller.               *)
(*                                                                         *)
(* Text is a sequence of one-character strings where the code works on     *)
(* characters (names, identifiers, paths) and a sequence of lines where    *)
(* it works on code text.  The registry file, the submissions directory    *)
(* and the clock are state shared by invocations.                          *)
(***************************************************************************)
EXTENDS Integers, Sequences, FiniteSets, TLC

VARIABLES
    pc,          \* position of the invocation of main()
    args,        \* parsed command line: model_file, name, no_deploy
    submission_name,
    model_id,
    fs,          \* files below (and including) SUBMISSION_BASE: path -> node
    registry,    \* the file MODELS_CONFIG
    now,         \* time.time(), whole seconds
    docker,      \* the container runtime as the tool sees it
    restarts,    \* number of "docker restart" commands issued
    events,      \* what the invocation has done so far, in order
    exitCode,    \* process exit status, -1 while running
    poll,        \* frame of check_deployment_status
    cfgLast,     \* the last run of update_models_config: inputs and result
    procs,       \* two concurrent runs of update_models_config
    initial      \* the files as the first invocation found them

vars == <<pc, args, submission_name, model_id, fs, registry, now, docker,
          restarts, events, exitCode, poll, cfgLast, procs, initial>>

----------------------------------------------------------------------------
(* Bounds of the model *)

\* The clock's earliest value; chosen so that T0 + 2 wraps modulo IdModulus.
T0 == 9998
\* The longest time one "docker logs" call takes, in seconds.
MaxFetch == 1
\* How far a sleep may overrun its duration, in seconds.
MaxOversleep == 0
\* Number of consecutive Config Updater runs explored.
MaxRuns == 3

(* Program constants *)
BaseId == 12315
IdModulus == 10000
GracePeriod == 5
PollInterval == 3
DefaultMaxWait == 60

----------------------------------------------------------------------------
(* Generic helpers *)

RECURSIVE Str(_)
\* str(n) for n >= 0: the decimal digits, most significant first.
Str(n) ==
    LET d == <<"0","1","2","3","4","5","6","7","8","9">>[(n % 10) + 1]
    IN  IF n < 10 THEN <<d>> ELSE Append(Str(n \div 10), d)

IsPrefix(p, s) == Len(p) <= Len(s) /\ SubSeq(s, 1, Len(p)) = p

\* Python's "needle in haystack" on character sequences.
Contains(hay, needle) ==
    \E i \in 0..(Len(hay) - Len(needle)) :
        SubSeq(hay, i + 1, i + Len(needle)) = needle

Range(s) == { s[i] : i \in DOMAIN s }

RECURSIVE Flatten(_)
Flatten(ss) == IF ss = <<>> THEN <<>> ELSE Head(ss) \o Flatten(Tail(ss))

----------------------------------------------------------------------------
(* generate_model_id, generate_submission_name *)

generate_model_id(t) == Str(BaseId + (t % IdModulus))

UpperChars == <<"A","B","C","D","E","F","G","H","I","J","K","L","M",
                "N","O","P","Q","R","S","T","U","V","W","X","Y","Z">>
LowerChars == <<"a","b","c","d","e","f","g","h","i","j","k","l","m",
                "n","o","p","q","r","s","t","u","v","w","x","y","z">>
DigitChars == <<"0","1","2","3","4","5","6","7","8","9">>

Lower(c) ==
    IF \E i \in DOMAIN UpperChars : UpperChars[i] = c
    THEN LowerChars[CHOOSE i \in DOMAIN UpperChars : UpperChars[i] = c]
    ELSE c

\* The character class [a-z0-9-].
SlugChar(c) == c \in Range(LowerChars) \cup Range(DigitChars) \cup {"-"}

\* re.sub(r'[^a-z0-9-]', '-', s.lower())
Sanitize(s) ==
    [i \in DOMAIN s |-> IF SlugChar(Lower(s[i])) THEN Lower(s[i]) ELSE "-"]

RECURSIVE Collapse(_)
\* re.sub(r'-+', '-', s)
Collapse(s) ==
    IF Len(s) < 2 THEN s
    ELSE IF s[1] = "-" /\ s[2] = "-" THEN Collapse(Tail(s))
    ELSE <<s[1]>> \o Collapse(Tail(s))

RECURSIVE StripL(_)
StripL(s) == IF s # <<>> /\ Head(s) = "-" THEN StripL(Tail(s)) ELSE s

RECURSIVE StripR(_)
StripR(s) ==
    IF s # <<>> /\ s[Len(s)] = "-" THEN StripR(SubSeq(s, 1, Len(s) - 1)) ELSE s

\* s.strip('-')
Strip(s) == StripR(StripL(s))

SubmissionPrefix == <<"s","u","b","m","i","s","s","i","o","n","-">>

\* An absent --name and an empty one are both falsy: <<>>.
generate_submission_name(model_name, t) ==
    IF model_name # <<>>
    THEN Strip(Collapse(Sanitize(model_name)))
    ELSE SubmissionPrefix \o Str(t)

----------------------------------------------------------------------------
(* The registry file and update_models_config *)

StrId(n) == <<"str", Str(n)>>
IntId(n) == <<"int", <<n>>>>

NewModel(submission, id) ==
    [id |-> id, name |-> submission, submission_id |-> submission,
     crunch_id |-> "btcvol", desired_state |-> "RUNNING",
     cruncher_id |-> "test_1"]

\* m[k] = v on a Python dict: sets the key, adding it when it is absent.
SetKey(m, k, v) == [x \in DOMAIN m \cup {k} |-> IF x = k THEN v ELSE m[x]]

\* The registry file.  kind: "missing" (no such file), "malformed" (not
\* YAML), "empty" (loads as None), "map" (a mapping).  models: "absent" (no
\* such key), "null", or "list" with the records in `records`.  comments:
\* whether the text carries YAML comments, which the loader drops.
RegFile(kind, models, records, comments, writable) ==
    [kind |-> kind, models |-> models, records |-> records,
     comments |-> comments, writable |-> writable]

\* yaml.safe_load of the file: raised, or the loaded value.
Load(file) ==
    IF file.kind \in {"missing", "malformed"}
    THEN [raised |-> TRUE, kind |-> "none", models |-> "absent", records |-> <<>>]
    ELSE [raised |-> FALSE,
          kind |-> IF file.kind = "empty" THEN "none" ELSE "map",
          models |-> file.models, records |-> file.records]

\* yaml.dump(config, f, default_flow_style=False, sort_keys=False) into the
\* opened file: the data in its order, no comments.
Dump(file, config) ==
    RegFile("map", config.models, config.records, FALSE, file.writable)

\* open(MODELS_CONFIG, 'w'): truncates the file.
Truncate(file) == RegFile("empty", "absent", <<>>, FALSE, file.writable)

\* The records that `for m in config.get('models', [])` visits.
Visited(config) == IF config.models = "list" THEN config.records ELSE <<>>

\* Lines 191-215 raise: config is None (.get), models is null (iteration),
\* or a record has no 'id' key.
UpdateRaises(config) ==
    \/ config.kind = "none"
    \/ config.models = "null"
    \/ \E i \in DOMAIN config.records : "id" \notin DOMAIN config.records[i]

\* Faulty variant: appends without looking the id up.
BadAppendAlways(config, submission, id) ==
    [config EXCEPT !.models = "list",
                   !.records = Append(Visited(config), NewModel(submission, id))]

\* Faulty variant: the update loop has no test on the id for desired_state.
BadUpdateAll(config, submission, id) ==
    IF \E i \in DOMAIN Visited(config) : config.records[i].id = id
    THEN [config EXCEPT !.records =
            [i \in DOMAIN config.records |->
                IF config.records[i].id = id
                THEN SetKey(SetKey(config.records[i], "submission_id", submission),
                            "desired_state", "RUNNING")
                ELSE SetKey(config.records[i], "desired_state", "RUNNING")]]
    ELSE [config EXCEPT !.models = "list",
                        !.records = Append(Visited(config), NewModel(submission, id))]

\* Lines 191-215 on a config they do not raise on: the first record with the
\* id is updated in place, or a new record is appended.
UpdateConfigInMemory(config, submission, id) ==
    IF \E i \in DOMAIN Visited(config) : config.records[i].id = id
    THEN LET first == CHOOSE i \in DOMAIN config.records :
                        /\ config.records[i].id = id
                        /\ \A j \in 1..(i - 1) : config.records[j].id # id
         IN  [config EXCEPT !.records[first] =
                SetKey(SetKey(@, "submission_id", submission),
                       "desired_state", "RUNNING")]
    ELSE [config EXCEPT !.models = "list",
                        !.records = Append(Visited(config), NewModel(submission, id))]

\* update_models_config as one call: the result and the file afterwards.
update_models_config(file, submission, id) ==
    LET config == Load(file) IN
    IF config.raised \/ UpdateRaises(config) \/ ~file.writable
    THEN [ok |-> FALSE, file |-> file]
    ELSE [ok |-> TRUE,
          file |-> Dump(Truncate(file), UpdateConfigInMemory(config, submission, id))]

----------------------------------------------------------------------------
(* Consecutive runs of the Config Updater on one registry file *)

Times == {T0, T0 + 1, T0 + 2, T0 + IdModulus}

NameA == <<"a">>
NameB == <<"b">>
OldName == <<"o","l","d">>

Rec(id, state) ==
    [id |-> id, name |-> OldName, submission_id |-> OldName,
     crunch_id |-> "btcvol", desired_state |-> state, cruncher_id |-> "test_1"]

\* Registry files an invocation can find.
Registries ==
    { RegFile("missing", "absent", <<>>, FALSE, TRUE),
      RegFile("malformed", "absent", <<>>, FALSE, TRUE),
      RegFile("empty", "absent", <<>>, FALSE, TRUE),
      RegFile("map", "absent", <<>>, TRUE, TRUE),
      RegFile("map", "null", <<>>, FALSE, TRUE),
      RegFile("map", "list", <<>>, FALSE, TRUE),
      RegFile("map", "list",
              <<Rec(StrId(1), "RUNNING"),
                Rec(StrId(BaseId + (T0 % IdModulus)), "STOPPED"),
                Rec(StrId(BaseId), "STOPPED")>>, TRUE, TRUE),
      RegFile("map", "list",
              <<Rec(StrId(BaseId + (T0 % IdModulus)), "STOPPED"),
                Rec(StrId(BaseId + (T0 % IdModulus)), "FAILED")>>, FALSE, TRUE),
      RegFile("map", "list",
              <<Rec(IntId(BaseId + (T0 % IdModulus)), "STOPPED")>>, FALSE, TRUE),
      RegFile("map", "list",
              <<Rec(StrId(1), "RUNNING"), [name |-> OldName]>>, FALSE, TRUE),
      RegFile("map", "list", <<Rec(StrId(1), "RUNNING")>>, FALSE, FALSE) }

NoRun(file) ==
    [n |-> 0, before |-> file, submission |-> <<>>,
     id |-> StrId(0), ok |-> FALSE]

IdleProcs == [p \in {1, 2} |-> [pc |-> "off", submission |-> <<>>, id |-> StrId(0),
                                config |-> Load(RegFile("empty", "absent", <<>>, FALSE, TRUE)),
                                ok |-> FALSE]]
IdlePoll ==
    [pc |-> "off", id |-> <<>>, max_wait |-> 0, start_time |-> 0, logs |-> <<>>,
     fetches |-> 0, sleeps |-> 0, fetchedAt |-> 0, returnedAt |-> 0,
     raised |-> FALSE, status |-> "NONE"]
IdleArgs == [model_file |-> 0, name |-> <<>>, no_deploy |-> FALSE]
\* No submissions directory at all.
EmptyFs == << >>

InitCfg ==
    /\ registry \in Registries
    /\ now \in Times
    /\ cfgLast = NoRun(registry)
    /\ pc = "off" /\ args = IdleArgs /\ submission_name = <<>> /\ model_id = <<>>
    /\ fs = EmptyFs /\ docker = "ok" /\ restarts = 0 /\ events = <<>>
    /\ exitCode = -1 /\ poll = IdlePoll /\ procs = IdleProcs
    /\ initial = [fs |-> fs, registry |-> registry]

\* One invocation's Config Updater, run to completion at time t.
CfgRun ==
    /\ cfgLast.n < MaxRuns
    /\ \E t \in { u \in Times : u >= now }, s \in {NameA, NameB} :
         LET id == <<"str", generate_model_id(t)>>
             r  == update_models_config(registry, s, id)
         IN  /\ now' = t
             /\ registry' = r.file
             /\ cfgLast' = [cfgLast EXCEPT !.n = @ + 1, !.before = registry,
                                           !.submission = s, !.id = id,
                                           !.ok = r.ok]
    /\ UNCHANGED <<pc, args, submission_name, model_id, fs, docker, restarts,
                   events, exitCode, poll, procs, initial>>

NextCfg == CfgRun

SpecCfg == InitCfg /\ [][NextCfg]_vars

(* C4: a successful Config Updater run on a registry with no record of the
   model id appends exactly one record, with desired_state "RUNNING", and
   keeps the existing records and their order; on a registry with a record
   of that id it sets that record's submission_id and desired_state in
   place, keeps the record count and every other record. *)
C4_AppendOrUpdateInPlace ==
    (cfgLast.n > 0 /\ cfgLast.ok) =>
        LET b == Visited(Load(cfgLast.before))
            a == registry.records
        IN  /\ registry.kind = "map" /\ registry.models = "list"
            /\ IF \A i \in DOMAIN b : b[i].id # cfgLast.id
               THEN /\ Len(a) = Len(b) + 1
                    /\ SubSeq(a, 1, Len(b)) = b
                    /\ a[Len(a)] = NewModel(cfgLast.submission, cfgLast.id)
                    /\ a[Len(a)].desired_state = "RUNNING"
               ELSE /\ Len(a) = Len(b)
                    /\ \E i \in DOMAIN b :
                         /\ b[i].id = cfgLast.id
                         /\ a[i] = [b[i] EXCEPT !.submission_id = cfgLast.submission,
                                                !.desired_state = "RUNNING"]
                         /\ \A j \in DOMAIN b : j # i => a[j] = b[j]

\* A second run has updated, in a registry holding other records, a record
\* that an earlier run appended.
C4_Witness ==
    /\ cfgLast.n >= 2 /\ cfgLast.ok
    /\ Len(registry.records) > Len(initial.registry.records)
    /\ Len(registry.records) = Len(cfgLast.before.records)
    /\ Len(registry.records) >= 2
    /\ registry # cfgLast.before

DistinctIds(file) ==
    \A i, j \in DOMAIN file.records :
        (/\ i # j
         /\ "id" \in DOMAIN file.records[i]
         /\ "id" \in DOMAIN file.records[j])
            => file.records[i].id # file.records[j].id

(* C9: starting from a registry whose records have pairwise distinct ids,
   the ids are pairwise distinct after every sequence of sequential Config
   Updater runs, colliding generated ids included. *)
C9_IdsStayDistinct ==
    DistinctIds(initial.registry) => DistinctIds(registry)

\* A run 10000 seconds after the first generated the id of a record an
\* earlier run had appended, and reused that record.
C9_Witness ==
    /\ DistinctIds(initial.registry)
    /\ cfgLast.n >= 2 /\ cfgLast.ok
    /\ now = T0 + IdModulus
    /\ \E i \in DOMAIN cfgLast.before.records :
         /\ i > Len(initial.registry.records)
         /\ cfgLast.before.records[i].id = cfgLast.id
    /\ Len(registry.records) = Len(cfgLast.before.records)

----------------------------------------------------------------------------
(* check_deployment_status.  Log text is a sequence of tokens: the digits of
   an identifier one by one, the fixed phrases whole. *)

\* f"Model {model_id} is RUNNING" and f"Model {model_id}"
RunningMarker(id) == <<"Model ">> \o id \o <<" is RUNNING">>
ModelTag(id) == <<"Model ">> \o id
FailedMarker == <<"FAILED">>

\* What the orchestrator may write about a model.
StartingLine(id) == <<"Model ">> \o id \o <<" is STARTING", "\n">>
RunningLine(id) == RunningMarker(id) \o <<"\n">>
FailedLine(id) == <<"Model ">> \o id \o <<" has ", "FAILED", "\n">>
NoiseLine == <<"health check ", "FAILED", "\n">>

\* Log tails a fetch may return while `id` is polled: stdout + stderr.
LogTexts(id) ==
    LET longer == Append(id, "7") IN
    { <<"Error: No such container", "\n">>,
      StartingLine(id),
      NoiseLine,
      RunningLine(longer),
      StartingLine(id) \o NoiseLine,
      FailedLine(id),
      FailedLine(longer),
      RunningLine(id),
      FailedLine(id) \o RunningLine(id),
      NoiseLine \o RunningLine(id) }

\* Faulty variant: the two tests in the other order.
BadScanFailedFirst(id, logs) ==
    IF Contains(logs, ModelTag(id)) /\ Contains(logs, FailedMarker) THEN "FAILED"
    ELSE IF Contains(logs, RunningMarker(id)) THEN "RUNNING"
    ELSE "NONE"

\* Lines 260-266: what one poll returns, "NONE" when the loop goes on.
Scan(id, logs) ==
    IF Contains(logs, RunningMarker(id)) THEN "RUNNING"
    ELSE IF Contains(logs, ModelTag(id)) /\ Contains(logs, FailedMarker) THEN "FAILED"
    ELSE "NONE"

\* Faulty variant: the loop gives up one interval early.
BadLoopCondition(t, start_time, max_wait) ==
    t - start_time + PollInterval < max_wait

\* Line 251: the loop condition.
LoopCondition(t, start_time, max_wait) == t - start_time < max_wait

\* Line 250.
PollEnter ==
    /\ pc = "poll" /\ poll.pc = "off"
    /\ poll' = [poll EXCEPT !.pc = "loop", !.id = model_id, !.start_time = now]
    /\ UNCHANGED <<pc, args, submission_name, model_id, fs, registry, now,
                   docker, restarts, events, exitCode, cfgLast, procs, initial>>

\* Lines 251-268: one turn of the loop.  The fetch takes d seconds and
\* raises (the runtime cannot be started, its output cannot be decoded) or
\* returns a log tail; a failed "docker logs" returns its error text.
PollIterate ==
    /\ poll.pc = "loop"
    /\ LoopCondition(now, poll.start_time, poll.max_wait)
    /\ \E d \in 0..MaxFetch :
         \/ /\ poll' = [poll EXCEPT !.pc = "done", !.status = "UNKNOWN",
                                    !.raised = TRUE, !.returnedAt = now + d]
            /\ now' = now + d
         \/ \E logs \in LogTexts(poll.id), o \in 0..MaxOversleep :
              LET st == Scan(poll.id, logs)
                  p1 == [poll EXCEPT !.logs = logs, !.fetches = @ + 1,
                                     !.fetchedAt = now + d]
              IN  IF st # "NONE"
                  THEN /\ o = 0
                       /\ poll' = [p1 EXCEPT !.pc = "done", !.status = st,
                                             !.returnedAt = now + d]
                       /\ now' = now + d
                  ELSE /\ poll' = [p1 EXCEPT !.sleeps = @ + 1]
                       /\ now' = now + d + PollInterval + o
    /\ UNCHANGED <<pc, args, submission_name, model_id, fs, registry, docker,
                   restarts, events, exitCode, cfgLast, procs, initial>>

\* Line 270.
PollExhausted ==
    /\ poll.pc = "loop"
    /\ ~LoopCondition(now, poll.start_time, poll.max_wait)
    /\ poll' = [poll EXCEPT !.pc = "done", !.status = "UNKNOWN", !.returnedAt = now]
    /\ UNCHANGED <<pc, args, submission_name, model_id, fs, registry, now,
                   docker, restarts, events, exitCode, cfgLast, procs, initial>>

MaxWaits == {0, 7, DefaultMaxWait}
PollIds == {Str(BaseId), <<"1","2","3">>}

InitPoll ==
    /\ pc = "poll"
    /\ model_id \in PollIds
    /\ \E w \in MaxWaits : poll = [IdlePoll EXCEPT !.max_wait = w]
    /\ now \in {T0, T0 + 1}
    /\ registry = RegFile("map", "list", <<>>, FALSE, TRUE)
    /\ cfgLast = NoRun(registry)
    /\ args = IdleArgs /\ submission_name = <<>>
    /\ fs = EmptyFs /\ docker = "ok" /\ restarts = 0 /\ events = <<>>
    /\ exitCode = -1 /\ procs = IdleProcs
    /\ initial = [fs |-> fs, registry |-> registry]

NextPoll == PollEnter \/ PollIterate \/ PollExhausted

SpecPoll == InitPoll /\ [][NextPoll]_vars

Elapsed == poll.returnedAt - poll.start_time

(* C5 as stated: whenever the Status Poller returns UNKNOWN, at least
   max_wait has elapsed since it started, executions in which fetching the
   logs fails included. *)
C5_UnknownOnlyAfterFullWait ==
    (poll.pc = "done" /\ poll.status = "UNKNOWN") => Elapsed >= poll.max_wait

(* C5 amended: the Status Poller returns UNKNOWN either after at least
   max_wait has elapsed, or at once when a log fetch raises. *)
C5_UnknownAfterFullWaitOrRaise ==
    (poll.pc = "done" /\ poll.status = "UNKNOWN") =>
        \/ Elapsed >= poll.max_wait
        \/ poll.raised

\* The loop ran out after several polls that matched nothing.
C5_Witness ==
    /\ poll.pc = "done" /\ poll.status = "UNKNOWN" /\ ~poll.raised
    /\ poll.max_wait = DefaultMaxWait
    /\ poll.fetches >= 2 /\ poll.sleeps = poll.fetches
    /\ Elapsed >= poll.max_wait

(* C6: the poll whose log tail contains "Model <id> is RUNNING" returns
   RUNNING at once: it is the last poll, no sleep follows it, the full wait
   has not elapsed, and FAILED text in the same tail changes nothing. *)
C6_RunningReturnsAtOnce ==
    (poll.fetches > 0 /\ Contains(poll.logs, RunningMarker(poll.id))) =>
        /\ poll.pc = "done" /\ poll.status = "RUNNING"
        /\ poll.returnedAt = poll.fetchedAt
        /\ now = poll.fetchedAt
        /\ poll.sleeps = poll.fetches - 1
        /\ poll.fetchedAt - poll.start_time < poll.max_wait + MaxFetch

\* RUNNING was returned on a later poll from a tail that also says FAILED.
C6_Witness ==
    /\ poll.pc = "done" /\ poll.status = "RUNNING"
    /\ poll.fetches >= 2
    /\ Contains(poll.logs, RunningMarker(poll.id))
    /\ Contains(poll.logs, FailedMarker)
    /\ Elapsed < poll.max_wait

----------------------------------------------------------------------------
(* Code text: a sequence of lines.  Subs(line) are the substrings, among
   those the tool searches for, that the line contains. *)

ImportOld == "from btcvol import TrackerBase"
ImportNew == "from btcvol.tracker import TrackerBase"
ImportNumpy == "import numpy as np"

Subs(line) ==
    CASE line = ImportOld -> {"Tracker", "TrackerBase", ImportOld}
      [] line = ImportNew -> {"Tracker", "TrackerBase", ImportNew}
      [] line = ImportNumpy -> {ImportNumpy, "import numpy"}
      [] line = "import pandas as pd" -> {"import pandas"}
      [] line = "class MyTracker(TrackerBase):" -> {"Tracker", "TrackerBase"}
      [] line = "class MyTracker:" -> {"Tracker"}
      [] line = "    def predict(self, x): return np.std(x)" -> {"predict", "np."}
      [] line = "    def predict(self, x): return 0.5" -> {"predict"}
      [] line = "    test_model_locally(MyTracker)" -> {"Tracker", "test_model_locally"}
      [] line = "!pip install btcvol" -> {"pip install"}
      [] line = "# Test the model" -> {"# Test"}
      [] line = "{not a notebook: Tracker predict" -> {"Tracker", "predict"}
      [] OTHER -> {}

\* line.strip().startswith(prefix) for the prefixes the tool tests.
StartsWith(line, prefix) ==
    \/ prefix = "%" /\ line = "%matplotlib inline"
    \/ prefix = "!" /\ line = "!pip install btcvol"
    \/ prefix = "if __name__" /\ line \in {"if __name__ == '__main__':",
                                           "    if __name__ == '__main__':"}

Blank(line) == line \in {"", "   "}

\* needle in text
In(needle, text) == \E i \in DOMAIN text : needle \in Subs(text[i])

\* A model file on disk.  text: its lines (a script, or a notebook that is
\* not valid JSON); cells: a well-formed notebook's cells.
ModelFile(exists, suffix, wellFormed, text, cells) ==
    [exists |-> exists, suffix |-> suffix, wellFormed |-> wellFormed,
     text |-> text, cells |-> cells]

Cell(type, source) == [cell_type |-> type, source |-> source]

\* model_path.read_text()
ReadText(f) ==
    IF f.suffix = ".ipynb" /\ f.wellFormed
    THEN Flatten([i \in DOMAIN f.cells |-> f.cells[i].source])
    ELSE f.text

\* Faulty variant: no check at all.
BadValidateAcceptsAny(f) == [valid |-> TRUE, message |-> "Valid"]

\* Lines 33-46.
validate_model_file(f) ==
    IF ~f.exists THEN [valid |-> FALSE, message |-> "Model file not found"]
    ELSE IF f.suffix \notin {".py", ".ipynb"}
    THEN [valid |-> FALSE, message |-> "Model file must be .py or .ipynb"]
    ELSE IF ~In("Tracker", ReadText(f)) \/ ~In("predict", ReadText(f))
    THEN [valid |-> FALSE, message |-> "Model file must contain a Tracker class"]
    ELSE [valid |-> TRUE, message |-> "Valid"]

RECURSIVE FirstNonBlank(_)
FirstNonBlank(text) ==
    IF text = <<>> THEN ""
    ELSE IF Blank(Head(text)) THEN FirstNonBlank(Tail(text)) ELSE Head(text)

\* Lines 70-77: the cell is skipped.
SkipCell(code) ==
    \/ \A i \in DOMAIN code : Blank(code[i])
    \/ StartsWith(FirstNonBlank(code), "%")
    \/ StartsWith(FirstNonBlank(code), "!")
    \/ In("test_model_locally", code)
    \/ In("pip install", code)
    \/ In("# Test", code)

RECURSIVE JoinCells(_)
\* '\n\n'.join(code_cells)
JoinCells(cs) ==
    IF cs = <<>> THEN <<>>
    ELSE IF Len(cs) = 1 THEN cs[1]
    ELSE cs[1] \o <<"">> \o JoinCells(Tail(cs))

\* Lines 49-81 on a well-formed notebook.
extract_model_code_from_notebook(f) ==
    JoinCells(SelectSeq(
        [i \in DOMAIN f.cells |->
            IF f.cells[i].cell_type = "code" THEN f.cells[i].source ELSE <<>>],
        LAMBDA code : ~SkipCell(code)))

\* Lines 129-153: the entry-point text.
PostProcess(code0) ==
    LET code1 == IF In(ImportNew, code0) THEN code0
                 ELSE [i \in DOMAIN code0 |->
                         IF code0[i] = ImportOld THEN ImportNew ELSE code0[i]]
        imports == (IF In("TrackerBase", code1) /\ ~In(ImportNew, code1)
                    THEN <<ImportNew>> ELSE <<>>)
                   \o (IF In("np.", code1) /\ ~In(ImportNumpy, code1)
                       THEN <<ImportNumpy>> ELSE <<>>)
        code2 == IF imports # <<>> THEN imports \o <<"", "">> \o code1 ELSE code1
    IN  IF \E i \in DOMAIN code2 : StartsWith(code2[i], "if __name__")
        THEN SubSeq(code2, 1,
                    (CHOOSE i \in DOMAIN code2 :
                        /\ StartsWith(code2[i], "if __name__")
                        /\ \A j \in 1..(i - 1) : ~StartsWith(code2[j], "if __name__")) - 1)
        ELSE code2

\* Lines 163-178: the dependency manifest, sorted.
Requirements(code) ==
    LET deps == (IF In("import numpy", code) THEN <<"numpy>=1.24.0">> ELSE <<>>)
                \o (IF In("import pandas", code) THEN <<"pandas>=2.0.0">> ELSE <<>>)
                \o (IF In("import sklearn", code) THEN <<"scikit-learn>=1.3.0">> ELSE <<>>)
                \o (IF In("import scipy", code) THEN <<"scipy>=1.10.0">> ELSE <<>>)
    IN  IF deps = <<>> THEN <<"numpy>=1.24.0">> ELSE deps

----------------------------------------------------------------------------
(* The submissions directory.  A path is the sequence of components below
   SUBMISSION_BASE, so <<>> is SUBMISSION_BASE itself. *)

Dir == [kind |-> "dir", data |-> <<>>]
File(data) == [kind |-> "file", data |-> data]

ModelOne == <<"m","o","d","e","l","-","1">>
\* BTCVOL_SOURCE, line 30.
BTCVOL_SOURCE == <<ModelOne, <<"btcvol">>>>

Exists(f, p) == p \in DOMAIN f

\* pathlib's SUBMISSION_BASE / name: joining an empty name gives the base.
SubmissionDir(name) == IF name = <<>> THEN <<>> ELSE <<name>>

\* shutil.rmtree(d)
RmTree(f, d) == [p \in { q \in DOMAIN f : ~IsPrefix(d, q) } |-> f[p]]

\* d.mkdir(parents=True, exist_ok=True)
MkDir(f, d) ==
    [p \in DOMAIN f \cup { SubSeq(d, 1, k) : k \in 0..Len(d) } |->
        IF p \in DOMAIN f THEN f[p] ELSE Dir]

\* shutil.copytree(src, dst), dst not existing
CopyTree(f, src, dst) ==
    LET under == { q \in DOMAIN f : IsPrefix(src, q) }
        moved(q) == dst \o SubSeq(q, Len(src) + 1, Len(q))
    IN  [p \in DOMAIN f \cup { moved(q) : q \in under } |->
            IF \E q \in under : moved(q) = p
            THEN f[CHOOSE q \in under : moved(q) = p]
            ELSE f[p]]

\* path.write_text(data)
WriteText(f, p, data) ==
    [q \in DOMAIN f \cup {p} |-> IF q = p THEN File(data) ELSE f[q]]


\* Lines 105-181: the files afterwards, and whether the call raised.
create_submission_structure(f0, file, name) ==
    LET dir == SubmissionDir(name)
        f1  == IF Exists(f0, dir) THEN RmTree(f0, dir) ELSE f0
        f2  == MkDir(f1, dir)
    IN  IF ~Exists(f2, BTCVOL_SOURCE)
        THEN [raised |-> TRUE, fs |-> f2]
        ELSE
        LET f3 == CopyTree(f2, BTCVOL_SOURCE, Append(dir, <<"btcvol">>))
        IN  IF file.suffix = ".ipynb" /\ ~file.wellFormed
            THEN [raised |-> TRUE, fs |-> f3]
            ELSE
            LET code == PostProcess(IF file.suffix = ".ipynb"
                                    THEN extract_model_code_from_notebook(file)
                                    ELSE ReadText(file))
                f4   == WriteText(f3, Append(dir, <<"main.py">>), code)
            IN  [raised |-> FALSE,
                 fs |-> WriteText(f4, Append(dir, <<"requirements.txt">>),
                                  Requirements(code))]

----------------------------------------------------------------------------
(* One invocation of main() *)

ScriptText ==
    <<ImportOld, "class MyTracker(TrackerBase):",
      "    def predict(self, x): return np.std(x)",
      "if __name__ == '__main__':", "    test_model_locally(MyTracker)">>

ModelFiles ==
    { ModelFile(FALSE, ".py", TRUE, <<>>, <<>>),
      ModelFile(TRUE, ".txt", TRUE, ScriptText, <<>>),
      ModelFile(TRUE, ".py", TRUE, <<"import pandas as pd", "class MyTracker:">>, <<>>),
      ModelFile(TRUE, ".py", TRUE, <<"    def predict(self, x): return 0.5">>, <<>>),
      ModelFile(TRUE, ".py", TRUE, ScriptText, <<>>),
      ModelFile(TRUE, ".ipynb", FALSE, <<"{not a notebook: Tracker predict">>, <<>>),
      ModelFile(TRUE, ".ipynb", TRUE, <<>>,
                <<Cell("markdown", <<"# Test the model">>),
                  Cell("code", <<"!pip install btcvol">>),
                  Cell("code", <<ImportNew, "import pandas as pd",
                                 "class MyTracker(TrackerBase):",
                                 "    def predict(self, x): return 0.5">>),
                  Cell("code", <<"    test_model_locally(MyTracker)">>)>>) }

MyA == <<"m","y","-","a">>

\* --name values: absent, a name whose slug is an existing submission, a
\* name of punctuation only, the reference submission, a new name.
UserNames ==
    { <<>>, <<"M","y"," ","A","!","!">>, <<"!","!">>, ModelOne, <<"b">> }

LibFile == File(<<"class TrackerBase:">>)

\* The reference submission and one earlier submission.
FsFull ==
    LET P == { <<>>, <<ModelOne>>, BTCVOL_SOURCE,
               BTCVOL_SOURCE \o << <<"tracker.py">> >>,
               <<ModelOne, <<"main.py">>>>,
               <<MyA>>, <<MyA, <<"btcvol">>>>,
               <<MyA, <<"btcvol">>, <<"tracker.py">>>>,
               <<MyA, <<"main.py">>>>, <<MyA, <<"requirements.txt">>>> }
    IN  [p \in P |->
           IF p = <<>> THEN Dir
           ELSE IF p[Len(p)] = <<"tracker.py">> THEN LibFile
           ELSE IF p[Len(p)] = <<"main.py">> THEN File(<<"class MyTracker:">>)
           ELSE IF p[Len(p)] = <<"requirements.txt">> THEN File(<<"numpy>=1.24.0">>)
           ELSE Dir]

\* Files of an earlier submission but no reference submission.
FsNoReference == RmTree(FsFull, <<ModelOne>>)

MainRegistries ==
    { RegFile("missing", "absent", <<>>, FALSE, TRUE),
      RegFile("map", "list", <<Rec(StrId(BaseId + (T0 % IdModulus)), "STOPPED")>>,
              TRUE, TRUE) }

Init ==
    /\ pc = "validate"
    /\ args \in [model_file : ModelFiles, name : UserNames, no_deploy : BOOLEAN]
    /\ submission_name = <<>> /\ model_id = <<>>
    /\ fs \in {FsFull, FsNoReference, EmptyFs}
    /\ registry \in MainRegistries
    /\ now \in {T0, T0 + 1}
    /\ docker \in {"ok", "restart_fails", "missing"}
    /\ restarts = 0 /\ events = <<>> /\ exitCode = -1
    /\ poll = [IdlePoll EXCEPT !.max_wait = DefaultMaxWait]
    /\ cfgLast = NoRun(registry)
    /\ procs = IdleProcs
    /\ initial = [fs |-> fs, registry |-> registry]

\* Lines 316-324.
Validate ==
    /\ pc = "validate"
    /\ LET v == validate_model_file(args.model_file) IN
       IF ~v.valid
       THEN /\ pc' = "exit" /\ exitCode' = 1
            /\ events' = Append(events, "invalid")
            /\ UNCHANGED <<submission_name, model_id>>
       ELSE /\ pc' = "build" /\ exitCode' = exitCode
            /\ events' = Append(events, "valid")
            /\ submission_name' = generate_submission_name(args.name, now)
            /\ model_id' = generate_model_id(now)
    /\ UNCHANGED <<args, fs, registry, now, docker, restarts, poll, cfgLast, procs, initial>>

\* Line 333, and the handler of line 370 when it raises.
Build ==
    /\ pc = "build"
    /\ LET r == create_submission_structure(fs, args.model_file, submission_name) IN
       /\ fs' = r.fs
       /\ IF r.raised
          THEN pc' = "exit" /\ exitCode' = 1 /\ events' = Append(events, "build_raised")
          ELSE pc' = "config" /\ exitCode' = exitCode /\ events' = Append(events, "built")
    /\ UNCHANGED <<args, submission_name, model_id, registry, now, docker,
                   restarts, poll, cfgLast, procs, initial>>

\* Faulty variant: --no-deploy is not honoured.
BadAfterConfigIgnoresFlag(ok, no_deploy) == IF ~ok THEN "exit1" ELSE "deploy"

\* Lines 338-345: where main goes once update_models_config has returned.
AfterConfig(ok, no_deploy) ==
    IF ~ok THEN "exit1" ELSE IF no_deploy THEN "exit0" ELSE "deploy"

\* Lines 338-345.
UpdateConfig ==
    /\ pc = "config"
    /\ LET r == update_models_config(registry, submission_name, <<"str", model_id>>) IN
       /\ registry' = r.file
       /\ cfgLast' = [cfgLast EXCEPT !.n = @ + 1, !.before = registry,
                                     !.submission = submission_name,
                                     !.id = <<"str", model_id>>, !.ok = r.ok]
       /\ CASE AfterConfig(r.ok, args.no_deploy) = "exit1" ->
                 pc' = "exit" /\ exitCode' = 1
                 /\ events' = Append(events, "config_failed")
            [] AfterConfig(r.ok, args.no_deploy) = "exit0" ->
                 pc' = "exit" /\ exitCode' = 0
                 /\ events' = events \o <<"config_ok", "skip_deploy">>
            [] OTHER ->
                 pc' = "deploy" /\ exitCode' = exitCode
                 /\ events' = Append(events, "config_ok")
    /\ UNCHANGED <<args, submission_name, model_id, fs, now, docker, restarts,
                   poll, procs, initial>>

\* Lines 348-349 and 227-244.  With no container runtime installed
\* subprocess.run raises FileNotFoundError, which line 242 does not catch
\* and line 370 does; a failing restart is CalledProcessError.
TriggerDeployment ==
    /\ pc = "deploy"
    /\ \/ /\ docker = "ok"
          /\ restarts' = restarts + 1
          /\ \E o \in 0..MaxOversleep : now' = now + GracePeriod + o
          /\ pc' = "poll" /\ exitCode' = exitCode
          /\ events' = Append(events, "restart_ok")
       \/ /\ docker = "restart_fails"
          /\ restarts' = restarts + 1
          /\ pc' = "exit" /\ exitCode' = 1 /\ now' = now
          /\ events' = Append(events, "restart_failed")
       \/ /\ docker = "missing"
          /\ pc' = "exit" /\ exitCode' = 1
          /\ events' = Append(events, "restart_raised")
          /\ UNCHANGED <<restarts, now>>
    /\ UNCHANGED <<args, submission_name, model_id, fs, registry, docker, poll,
                   cfgLast, procs, initial>>

\* Faulty variant: only FAILED is an error.
BadExitCodeOf(status) == IF status = "FAILED" THEN 1 ELSE 0

\* Line 368.
ExitCodeOf(status) == IF status = "RUNNING" THEN 0 ELSE 1

\* Lines 352-368.
Report ==
    /\ pc = "poll" /\ poll.pc = "done"
    /\ pc' = "exit"
    /\ exitCode' = ExitCodeOf(poll.status)
    /\ events' = Append(events, "polled")
    /\ UNCHANGED <<args, submission_name, model_id, fs, registry, now, docker,
                   restarts, poll, cfgLast, procs, initial>>

Next ==
    \/ Validate \/ Build \/ UpdateConfig \/ TriggerDeployment
    \/ PollEnter \/ PollIterate \/ PollExhausted \/ Report

Spec == Init /\ [][Next]_vars

\* The conditions under which the Validator is to reject, read off the
\* file itself.
Rejectable(f) ==
    \/ ~f.exists
    \/ f.suffix \notin {".py", ".ipynb"}
    \/ ~In("Tracker", ReadText(f))
    \/ ~In("predict", ReadText(f))

(* C1: when the model file is missing, has another extension than .py or
   .ipynb, or lacks a marker substring, the run ends with exit code 1 and
   nothing else has happened: the submissions directory and the registry
   file are as they were and no restart was issued. *)
C1_RejectBeforeAnyMutation ==
    (pc # "validate" /\ Rejectable(args.model_file)) =>
        /\ pc = "exit" /\ exitCode = 1
        /\ fs = initial.fs
        /\ registry = initial.registry
        /\ restarts = 0
        /\ poll.pc = "off" /\ cfgLast.n = 0

\* A script that names a Tracker but no predict was rejected, with a
\* submission of the requested name on disk.
C1_Witness ==
    /\ pc = "exit" /\ exitCode = 1
    /\ args.model_file.exists /\ args.model_file.suffix = ".py"
    /\ In("Tracker", ReadText(args.model_file))
    /\ ~In("predict", ReadText(args.model_file))
    /\ args.name = <<"M","y"," ","A","!","!">>
    /\ Exists(fs, <<MyA>>)

MalformedNotebook(f) ==
    f.exists /\ f.suffix = ".ipynb" /\ ~f.wellFormed /\ ~Rejectable(f)

(* C2: a notebook that passes the Validator but is not valid JSON aborts the
   run before any change to the submissions directory: an existing
   submission of the same name is not deleted, no new directory and no copy
   of the support library is left behind. *)
C2_ParseErrorBeforeAnyMutation ==
    (pc = "exit" /\ MalformedNotebook(args.model_file)) =>
        exitCode = 1 /\ fs = initial.fs

\* The submission's entry-point file is in place.
Built == Exists(fs, Append(SubmissionDir(submission_name), <<"main.py">>))

(* C3: the exit code is 0 exactly when the submission was built and the
   registry updated under --no-deploy, or the container was restarted and
   the Status Poller returned RUNNING; otherwise it is 1. *)
C3_ExitCode ==
    /\ pc # "exit" => exitCode = -1
    /\ pc = "exit" =>
        /\ exitCode \in {0, 1}
        /\ exitCode = 0 <=>
             \/ /\ args.no_deploy /\ Built /\ cfgLast.n = 1 /\ cfgLast.ok
                /\ registry # initial.registry /\ restarts = 0
             \/ /\ ~args.no_deploy /\ restarts = 1 /\ docker = "ok"
                /\ poll.pc = "done" /\ poll.status = "RUNNING"

\* A deployed run whose poller timed out has ended with exit code 1.
C3_Witness ==
    /\ pc = "exit" /\ exitCode = 1
    /\ restarts = 1 /\ poll.pc = "done" /\ poll.status = "UNKNOWN"
    /\ ~poll.raised

(* C7: the restart command is issued at most once, and only after the
   Structure Builder completed and the Config Updater wrote the registry;
   never under --no-deploy or after a Config Updater failure; the Status
   Poller runs only after a successful restart. *)
C7_RestartOrder ==
    /\ restarts <= 1
    /\ restarts = 1 =>
         /\ Len(events) >= 4
         /\ SubSeq(events, 1, 3) = <<"valid", "built", "config_ok">>
         /\ events[4] \in {"restart_ok", "restart_failed"}
         /\ Built /\ cfgLast.ok
         /\ \E i \in DOMAIN registry.records :
              /\ registry.records[i].id = <<"str", model_id>>
              /\ registry.records[i].submission_id = submission_name
    /\ (args.no_deploy \/ (cfgLast.n > 0 /\ ~cfgLast.ok)) => restarts = 0
    /\ poll.pc # "off" =>
         restarts = 1 /\ Len(events) >= 4 /\ events[4] = "restart_ok"

\* The poller is running after the one restart.
C7_Witness ==
    /\ restarts = 1 /\ poll.pc = "loop" /\ poll.fetches >= 1
    /\ events = <<"valid", "built", "config_ok", "restart_ok">>

(* C10: whatever --name is given, the Structure Builder deletes and rewrites
   only a proper subdirectory of the submissions directory, the
   submission's own: every other submission's files and the reference
   support library are afterwards as they were. *)
C10_BuilderTouchesOwnDirectoryOnly ==
    (pc \notin {"validate", "build"}
        /\ ~Rejectable(args.model_file)) =>
        /\ SubmissionDir(submission_name) # <<>>
        /\ \A p \in DOMAIN initial.fs :
             (~IsPrefix(<<submission_name>>, p) \/ IsPrefix(BTCVOL_SOURCE, p)) =>
                 (Exists(fs, p) /\ fs[p] = initial.fs[p])

----------------------------------------------------------------------------
(* Two invocations in update_models_config at once, on one registry file.
   Each loads the file (lines 187-188), edits its copy (191-215), opens the
   file for writing, which truncates it (218), and dumps its copy (219). *)

RaceRegistries ==
    { RegFile("map", "absent", <<>>, TRUE, TRUE),
      RegFile("map", "list", <<Rec(StrId(1), "RUNNING")>>, TRUE, TRUE),
      RegFile("map", "list",
              <<Rec(StrId(BaseId + (T0 % IdModulus)), "STOPPED"),
                Rec(StrId(1), "RUNNING")>>, FALSE, TRUE),
      RegFile("map", "list", <<Rec(StrId(1), "RUNNING")>>, FALSE, FALSE) }

InitRace ==
    /\ registry \in RaceRegistries
    /\ \E t1, t2 \in Times :
         procs = [p \in {1, 2} |->
                    [pc |-> "start",
                     submission |-> IF p = 1 THEN NameA ELSE NameB,
                     id |-> <<"str", generate_model_id(IF p = 1 THEN t1 ELSE t2)>>,
                     config |-> Load(RegFile("empty", "absent", <<>>, FALSE, TRUE)),
                     ok |-> FALSE]]
    /\ now = T0
    /\ cfgLast = NoRun(registry)
    /\ pc = "off" /\ args = IdleArgs /\ submission_name = <<>> /\ model_id = <<>>
    /\ fs = EmptyFs /\ docker = "ok" /\ restarts = 0 /\ events = <<>>
    /\ exitCode = -1 /\ poll = IdlePoll
    /\ initial = [fs |-> fs, registry |-> registry]

RaceFrame ==
    UNCHANGED <<pc, args, submission_name, model_id, fs, now, docker, restarts,
                exitCode, poll, cfgLast, initial>>

\* Lines 187-215.
RaceLoad(p) ==
    /\ procs[p].pc = "start"
    /\ LET config == Load(registry) IN
       IF config.raised \/ UpdateRaises(config)
       THEN procs' = [procs EXCEPT ![p].pc = "done", ![p].ok = FALSE]
       ELSE procs' = [procs EXCEPT ![p].pc = "loaded",
                        ![p].config = UpdateConfigInMemory(config, procs[p].submission,
                                                           procs[p].id)]
    /\ events' = Append(events, <<"load", p>>)
    /\ UNCHANGED registry
    /\ RaceFrame

\* Line 218.
RaceOpen(p) ==
    /\ procs[p].pc = "loaded"
    /\ IF registry.writable
       THEN /\ registry' = Truncate(registry)
            /\ procs' = [procs EXCEPT ![p].pc = "opened"]
       ELSE /\ registry' = registry
            /\ procs' = [procs EXCEPT ![p].pc = "done", ![p].ok = FALSE]
    /\ events' = Append(events, <<"open", p>>)
    /\ RaceFrame

\* Lines 219-221.  Each writer writes from offset 0 of the file it opened:
\* when the other writer has written since this one opened the file, the
\* result is this writer's text, followed by what is left of the other's
\* when that was longer, which need not be YAML at all.
RaceDump(p) ==
    /\ procs[p].pc = "opened"
    /\ \/ registry' = Dump(registry, procs[p].config)
       \/ /\ registry.kind # "empty"
          /\ registry' = RegFile("malformed", "absent", <<>>, FALSE, registry.writable)
    /\ procs' = [procs EXCEPT ![p].pc = "done", ![p].ok = TRUE]
    /\ events' = Append(events, <<"dump", p>>)
    /\ RaceFrame

NextRace == \E p \in {1, 2} : RaceLoad(p) \/ RaceOpen(p) \/ RaceDump(p)

SpecRace == InitRace /\ [][NextRace]_vars

HasId(records, id) == \E i \in DOMAIN records : records[i].id = id

\* Both loaded before either wrote, then p wrote and after it q wrote.
LostUpdateSchedule(p, q) ==
    /\ Len(events) = 6
    /\ {events[1], events[2]} = {<<"load", 1>>, <<"load", 2>>}
    /\ SubSeq(events, 3, 6) = << <<"open", p>>, <<"dump", p>>, <<"open", q>>, <<"dump", q>> >>

(* C8: two invocations with different model ids that both load the registry
   before either writes it back both report success, and the registry then
   holds the last writer's record but not the other invocation's: the first
   writer's record is lost. *)
C8_LastWriterWins ==
    \A p, q \in {1, 2} :
        (p # q /\ procs[p].id # procs[q].id /\ LostUpdateSchedule(p, q)) =>
            LET old == Visited(Load(initial.registry)) IN
            /\ procs[p].pc = "done" /\ procs[q].pc = "done"
            /\ procs[p].ok /\ procs[q].ok
            /\ registry.kind = "map" /\ registry.models = "list"
            /\ \E i \in DOMAIN registry.records :
                 /\ registry.records[i].id = procs[q].id
                 /\ registry.records[i].submission_id = procs[q].submission
            /\ \A i \in DOMAIN registry.records :
                 registry.records[i].submission_id # procs[p].submission
            /\ ~HasId(old, procs[p].id) => ~HasId(registry.records, procs[p].id)
            /\ Len(registry.records) =
                 Len(old) + (IF HasId(old, procs[q].id) THEN 0 ELSE 1)

\* Both appended a new record to their copy; only the second writer's is in
\* the file.
C8_Witness ==
    /\ LostUpdateSchedule(1, 2)
    /\ procs[1].id # procs[2].id
    /\ procs[1].ok /\ procs[2].ok
    /\ ~HasId(initial.registry.records, procs[1].id)
    /\ ~HasId(initial.registry.records, procs[2].id)
    /\ Len(initial.registry.records) = 1
    /\ Len(procs[1].config.records) = 2
    /\ HasId(registry.records, procs[2].id)
    /\ ~HasId(registry.records, procs[1].id)

====
